---- MODULE Spec2Model ----
(***************************************************************************)
(* The Block-STM scheduler of crates/blockifier/src/concurrency/           *)
(* scheduler.rs.  Every atomic load, store, fetch_add, fetch_sub and       *)
(* fetch_min, and every status-cell critical section, is one step of one   *)
(* worker; steps of different workers interleave (sequentially consistent  *)
(* interleaving of the atomics).                                           *)
(*                                                                         *)
(* mode = "contract": the scheduler comes from Scheduler::new and the      *)
(* workers follow the worker loop (next_task, finish_execution,            *)
(* try_validation_abort, finish_validation).                               *)
(* mode = <function name>: worker 1 calls that one function once on an     *)
(* arbitrary scheduler state, as the unit tests do with default_scheduler! *)
(* and set_tx_status; the other workers are off.                           *)
(* mode = "locks": as "contract" with 1..NLockWorkers workers; taking the  *)
(* mutex of a status cell (lock_tx_status) is a step of its own, so that a *)
(* worker can be seen waiting for a cell that another worker holds.  In    *)
(* the other modes a critical section is one step: it touches one cell and *)
(* nothing else that is shared.                                            *)
(***************************************************************************)
EXTENDS Integers, FiniteSets, TLC

\* Bounds of the model.
NWorkers == 3
MaxChunkSize == 2
MaxAborts == 1
NLockWorkers == 2
MaxLockAborts == 2

Workers == 1..NWorkers

\* enum TransactionStatus
TransactionStatus == {"ReadyToExecute", "Executing", "Executed", "Aborting"}

VARIABLES
    \* struct Scheduler
    execution_index,
    validation_index,
    decrease_counter,
    n_active_tasks,
    chunk_size,
    tx_statuses,
    done_marker,
    \* the mutexes of tx_statuses that a panic inside a critical section poisoned
    poisoned,
    \* the worker that holds the mutex of each cell, 0 when it is free
    locks,
    \* per worker: position in the code and the locals that live across steps
    pc,
    tx_index,
    loaded_index,
    observed_decrease_counter,
    caller,
    aborted,
    \* the run: "contract" or the function called on its own, and its result
    mode,
    result,
    \* the scheduler and the arguments at the start of the run, and the number
    \* of validations that the validators of the run find invalid
    pre,
    abort_budget,
    \* history: successful aborts and strict decreases of validation_index
    n_aborts,
    n_strict_decreases,
    \* history: the indices i such that finish_execution has set a cell j <= i
    \* to Executed and no ValidationTask(i) has been issued since
    validation_due,
    \* history, per worker: the transaction of the ValidationTask that the
    \* worker holds has started a new incarnation since the task was issued
    superseded,
    \* history: the indices whose cell set_executed_status has set to Executed
    executed_once,
    \* history, per index i: how many times next_version_to_execute has
    \* returned Some(i)
    next_task_executions

shared == <<execution_index, validation_index, decrease_counter, n_active_tasks,
            chunk_size, tx_statuses, done_marker, poisoned>>
locals == <<tx_index, loaded_index, observed_decrease_counter, caller, aborted>>
ledger == <<executed_once, next_task_executions>>
history == <<n_aborts, n_strict_decreases, validation_due, superseded,
             executed_once, next_task_executions>>
given == <<mode, pre, abort_budget>>
vars == <<execution_index, validation_index, decrease_counter, n_active_tasks,
          chunk_size, tx_statuses, done_marker, poisoned, locks, pc, tx_index,
          loaded_index, observed_decrease_counter, caller, aborted, mode,
          result, pre, abort_budget, n_aborts, n_strict_decreases,
          validation_due, superseded, executed_once, next_task_executions>>

Min(a, b) == IF a <= b THEN a ELSE b

\* Scheduler::new(chunk_size)
New(n) ==
    /\ execution_index = 0
    /\ validation_index = n
    /\ decrease_counter = 0
    /\ n_active_tasks = 0
    /\ chunk_size = n
    /\ tx_statuses = [i \in 0..(n - 1) |-> "ReadyToExecute"]
    /\ done_marker = FALSE
    /\ poisoned = {}

\* The scheduler and the arguments of worker 1 as a record.
Snapshot ==
    [execution_index |-> execution_index,
     validation_index |-> validation_index,
     decrease_counter |-> decrease_counter,
     n_active_tasks |-> n_active_tasks,
     chunk_size |-> chunk_size,
     tx_statuses |-> tx_statuses,
     done_marker |-> done_marker,
     tx_index |-> tx_index[1],
     aborted |-> aborted[1]]

\* No mutex is held when a run starts.
InitLocks == locks = [i \in DOMAIN tx_statuses |-> 0]

InitLocals ==
    /\ tx_index = [w \in Workers |-> 0]
    /\ loaded_index = [w \in Workers |-> 0]
    /\ observed_decrease_counter = [w \in Workers |-> 0]
    /\ caller = [w \in Workers |-> "none"]
    /\ aborted = [w \in Workers |-> FALSE]

\* The workers of a chunk start their loops on a new scheduler.
InitContract ==
    /\ \E n \in 0..MaxChunkSize : New(n)
    /\ InitLocals
    /\ pc = [w \in Workers |-> "idle"]
    /\ InitLocks
    /\ mode = "contract"
    /\ result = "none"
    /\ pre = Snapshot
    /\ abort_budget = MaxAborts
    /\ n_aborts = 0
    /\ n_strict_decreases = 0
    /\ validation_due = {}
    /\ superseded = [w \in Workers |-> FALSE]
    /\ executed_once = {}
    /\ next_task_executions = [i \in DOMAIN tx_statuses |-> 0]

\* The same with 1..NLockWorkers workers and the mutexes taken step by step.
InitLockSteps ==
    /\ \E n \in 0..MaxChunkSize : New(n)
    /\ InitLocals
    /\ InitLocks
    /\ \E n \in 1..NLockWorkers :
          pc = [w \in Workers |-> IF w <= n THEN "idle" ELSE "off"]
    /\ mode = "locks"
    /\ result = "none"
    /\ pre = Snapshot
    /\ abort_budget = MaxLockAborts
    /\ n_aborts = 0
    /\ n_strict_decreases = 0
    /\ validation_due = {}
    /\ superseded = [w \in Workers |-> FALSE]
    /\ executed_once = {}
    /\ next_task_executions = [i \in DOMAIN tx_statuses |-> 0]

\* The worker loop runs in these modes.
InLoop == mode \in {"contract", "locks"}

\* The functions called on their own, and where each starts.
UnitEntry(f, is_aborted) ==
    CASE f = "next_task" -> "idle"
      [] f = "finish_execution" -> "executing"
      [] f = "set_executed_status" -> "executing"
      [] f = "try_validation_abort" -> "validating"
      [] f = "finish_validation" ->
            IF is_aborted THEN "set_ready_status:147" ELSE "finish_validation:106"
      [] f = "set_ready_status" -> "set_ready_status:147"
      [] f = "check_done" -> "check_done:113"
      [] f = "try_incarnate" -> "try_incarnate:167"
      [] f = "next_version_to_validate" -> "next_version_to_validate:179"
      [] f = "next_version_to_execute" -> "next_version_to_execute:197"
      [] f = "decrease_validation_index" -> "decrease_validation_index:159"

UnitFunctions ==
    {"next_task", "finish_execution", "set_executed_status",
     "try_validation_abort", "finish_validation", "set_ready_status",
     "check_done", "try_incarnate", "next_version_to_validate",
     "next_version_to_execute", "decrease_validation_index"}

\* A scheduler in any state (the tests' default_scheduler! and set_tx_status)
\* and worker 1 about to call f(tx_index) or finish_validation(tx_index, aborted).
InitUnit ==
    /\ chunk_size \in 0..MaxChunkSize
    /\ execution_index \in 0..(chunk_size + 1)
    /\ validation_index \in 0..(chunk_size + 1)
    /\ decrease_counter \in 0..1
    /\ n_active_tasks \in 0..2
    /\ tx_statuses \in [0..(chunk_size - 1) -> TransactionStatus]
    /\ done_marker \in BOOLEAN
    /\ poisoned = {}
    /\ InitLocks
    /\ mode \in UnitFunctions
    /\ \E i \in 0..chunk_size, b \in BOOLEAN :
          /\ tx_index = [w \in Workers |-> IF w = 1 THEN i ELSE 0]
          /\ aborted = [w \in Workers |-> w = 1 /\ b]
          /\ pc = [w \in Workers |-> IF w = 1 THEN UnitEntry(mode, b) ELSE "off"]
    /\ loaded_index = [w \in Workers |-> 0]
    /\ observed_decrease_counter = [w \in Workers |-> 0]
    /\ caller = [w \in Workers |-> "none"]
    /\ result = "none"
    /\ pre = Snapshot
    /\ abort_budget = MaxAborts
    /\ n_aborts = 0
    /\ n_strict_decreases = 0
    /\ validation_due = {}
    /\ superseded = [w \in Workers |-> FALSE]
    /\ executed_once = {}
    /\ next_task_executions = [i \in DOMAIN tx_statuses |-> 0]

----------------------------------------------------------------------------
\* Where a worker goes next, and what the called function returned.
At(p) == [pc |-> p, result |-> result]
Returned(r) == [pc |-> "returned", result |-> r]
Panicked == [pc |-> "panicked", result |-> result]

Jump(w, to) ==
    /\ pc' = [pc EXCEPT ![w] = to.pc]
    /\ result' = to.result

\* What a worker of the loop does with a Task: execute it, validate it, ask
\* again (NoTask) or leave the loop (Done).
LoopPosition(task) ==
    CASE task = "ExecutionTask" -> "executing"
      [] task = "ValidationTask" -> "validating"
      [] task = "NoTask" -> "idle"
      [] task = "Done" -> "exited"

NextTaskReturn(task) ==
    IF mode = "next_task" THEN Returned(task) ELSE At(LoopPosition(task))

\* Variant with a fault: next_task returns NoTask when the validation
\* reservation fails, without trying the execution reservation.
NextVersionToValidateReturn_NoFallThrough(some) ==
    IF mode = "next_version_to_validate"
    THEN Returned(IF some THEN "Some" ELSE "None")
    ELSE NextTaskReturn(IF some THEN "ValidationTask" ELSE "NoTask")

\* next_task, lines 62-65: Some(tx_index) is returned as a ValidationTask,
\* None falls through to next_version_to_execute.
NextVersionToValidateReturn(some) ==
    IF mode = "next_version_to_validate"
    THEN Returned(IF some THEN "Some" ELSE "None")
    ELSE IF some THEN NextTaskReturn("ValidationTask")
         ELSE At("next_version_to_execute:197")

\* next_task, lines 67-71.
NextVersionToExecuteReturn(some) ==
    IF mode = "next_version_to_execute"
    THEN Returned(IF some THEN "Some" ELSE "None")
    ELSE NextTaskReturn(IF some THEN "ExecutionTask" ELSE "NoTask")

\* check_done is called at lines 181 and 199, which both return None.
CheckDoneReturn(w) ==
    IF mode = "check_done" THEN Returned("unit")
    ELSE IF caller[w] = "next_version_to_validate"
         THEN NextVersionToValidateReturn(FALSE)
         ELSE NextVersionToExecuteReturn(FALSE)

FinishValidationReturn(task) ==
    IF mode = "finish_validation" THEN Returned(task) ELSE At(LoopPosition(task))

\* try_incarnate is called at line 101 (finish_validation) and line 204
\* (next_version_to_execute).
TryIncarnateReturn(w, ok) ==
    IF mode = "try_incarnate" THEN Returned(IF ok THEN "true" ELSE "false")
    ELSE IF caller[w] = "finish_validation"
         THEN IF ok THEN FinishValidationReturn("ExecutionTask")
              ELSE At("finish_validation:106")
         ELSE NextVersionToExecuteReturn(ok)

FinishExecutionReturn ==
    IF mode = "finish_execution" THEN Returned("unit") ELSE At("idle")

SetExecutedStatusReturn ==
    IF mode = "set_executed_status" THEN Returned("unit")
    ELSE At("finish_execution:79")

SetReadyStatusReturn ==
    IF mode = "set_ready_status" THEN Returned("unit")
    ELSE At("finish_validation:100")

DecreaseValidationIndexReturn ==
    IF mode = "decrease_validation_index" THEN Returned("unit")
    ELSE At("finish_execution:82")

\* The loop passes the result on: finish_validation(tx_index, aborted), whose
\* line 98 branches on aborted.
TryValidationAbortReturn(ok) ==
    IF mode = "try_validation_abort" THEN Returned(IF ok THEN "true" ELSE "false")
    ELSE At(IF ok THEN "set_ready_status:147" ELSE "finish_validation:106")

\* lock_tx_status: the lock of cell i cannot be taken when i is no index of
\* tx_statuses or when the mutex is poisoned; the caller panics.
LockFails(i) == i \notin DOMAIN tx_statuses \/ i \in poisoned

\* Worker w is through lock_tx_status(i): at once where a critical section
\* is one step or where the lock fails, with the guard that LockTxStatus(w)
\* gave it in mode "locks".
HoldsGuard(w, i) ==
    IF mode = "locks" /\ ~LockFails(i) THEN locks[i] = w ELSE TRUE

\* The cells whose guard worker w holds.
Guards(w) == {i \in DOMAIN locks : locks[i] = w}

\* Variant with a fault: the guard outlives its scope and the mutex stays locked.
DropGuard_Leaked(i) == locks

\* The guard of cell i goes out of scope (end of the block, return or
\* unwinding) and unlocks the mutex.
DropGuard(i) == [c \in DOMAIN locks |-> IF c = i THEN 0 ELSE locks[c]]

\* safe_decrement_n_active_tasks: fetch_sub(1), then the assertion on the
\* previous value.  n_active_tasks is a usize kept by its representative
\* modulo 2^64 nearest to zero, so the wrapped value usize::MAX is -1.
SafeDecrementNActiveTasksValue(n) == n - 1

SafeDecrementNActiveTasks(w, to) ==
    /\ n_active_tasks' = SafeDecrementNActiveTasksValue(n_active_tasks)
    /\ Jump(w, IF n_active_tasks = 0 THEN Panicked ELSE to)

\* From the return of ValidationTask(i) to the return of finish_validation(i, _).
HoldsValidationTask(w, i) ==
    /\ \/ pc[w] \in {"validating", "try_validation_abort:86",
                     "set_ready_status:147", "finish_validation:100",
                     "finish_validation:106"}
       \/ /\ pc[w] \in {"try_incarnate:167", "try_incarnate:174"}
          /\ caller[w] = "finish_validation"
    /\ tx_index[w] = i

----------------------------------------------------------------------------
\* next_task

\* A worker of the loop at "idle" calls next_task.
\* line 50: if self.done() { return Task::Done; }
\* Variant with a fault: next_task does not look at the done marker.
NextTaskDoneBranch_Ignored(done) == At("next_task:54")

NextTaskDoneBranch(done) ==
    IF done THEN NextTaskReturn("Done") ELSE At("next_task:54")

NextTaskDone(w) ==
    /\ pc[w] = "idle"
    /\ Jump(w, NextTaskDoneBranch(done_marker))
    /\ UNCHANGED <<shared, locals, given, locks, history>>

\* line 54: index_to_validate = validation_index.load()
NextTaskLoadValidationIndex(w) ==
    /\ pc[w] = "next_task:54"
    /\ loaded_index' = [loaded_index EXCEPT ![w] = validation_index]
    /\ Jump(w, At("next_task:55"))
    /\ UNCHANGED <<shared, tx_index, observed_decrease_counter, caller, aborted,
                   given, locks, history>>

\* Variant with a fault: next_task reserves a validation when the execution
\* snapshot is the lower one.
NextTaskBranch_ExecutionFirst(index_to_validate, index_to_execute) ==
    IF Min(index_to_validate, index_to_execute) >= chunk_size
    THEN NextTaskReturn("NoTask")
    ELSE IF index_to_validate > index_to_execute
         THEN At("next_version_to_validate:179")
         ELSE At("next_version_to_execute:197")

\* Variant with a fault: next_task goes on to the reservations when both
\* snapshots are past the end.
NextTaskBranch_NoEarlyReturn(index_to_validate, index_to_execute) ==
    IF index_to_validate < index_to_execute
    THEN At("next_version_to_validate:179")
    ELSE At("next_version_to_execute:197")

\* lines 55-67: index_to_execute = execution_index.load(), and the branches
\* on the two snapshots.
NextTaskBranch(index_to_validate, index_to_execute) ==
    IF Min(index_to_validate, index_to_execute) >= chunk_size
    THEN NextTaskReturn("NoTask")
    ELSE IF index_to_validate < index_to_execute
         THEN At("next_version_to_validate:179")
         ELSE At("next_version_to_execute:197")

NextTaskLoadExecutionIndex(w) ==
    /\ pc[w] = "next_task:55"
    /\ Jump(w, NextTaskBranch(loaded_index[w], execution_index))
    /\ loaded_index' = [loaded_index EXCEPT ![w] = 0]
    /\ UNCHANGED <<shared, tx_index, observed_decrease_counter, caller, aborted,
                   given, locks, history>>

----------------------------------------------------------------------------
\* next_version_to_validate

\* lines 179-183
NextVersionToValidateLoad(w) ==
    /\ pc[w] = "next_version_to_validate:179"
    /\ IF validation_index >= chunk_size
       THEN /\ caller' = [caller EXCEPT ![w] = "next_version_to_validate"]
            /\ Jump(w, At("check_done:113"))
       ELSE /\ caller' = caller
            /\ Jump(w, At("next_version_to_validate:184"))
    /\ UNCHANGED <<shared, tx_index, loaded_index, observed_decrease_counter,
                   aborted, given, locks, history>>

\* Variant with a fault: the validation reservation takes no charge.
NextVersionToValidateActivate_NoCharge(w) ==
    /\ pc[w] = "next_version_to_validate:184"
    /\ Jump(w, At("next_version_to_validate:185"))
    /\ UNCHANGED <<shared, locals, given, locks, history>>

\* line 184: n_active_tasks.fetch_add(1)
NextVersionToValidateActivate(w) ==
    /\ pc[w] = "next_version_to_validate:184"
    /\ n_active_tasks' = n_active_tasks + 1
    /\ Jump(w, At("next_version_to_validate:185"))
    /\ UNCHANGED <<execution_index, validation_index, decrease_counter,
                   chunk_size, tx_statuses, done_marker, poisoned, locals, given, locks,
                   history>>

\* lines 185-186: index_to_validate = validation_index.fetch_add(1)
NextVersionToValidateFetchAdd(w) ==
    /\ pc[w] = "next_version_to_validate:185"
    /\ validation_index' = validation_index + 1
    /\ tx_index' = [tx_index EXCEPT ![w] = validation_index]
    /\ Jump(w, At(IF validation_index < chunk_size
                  THEN "next_version_to_validate:187"
                  ELSE "next_version_to_validate:192"))
    /\ UNCHANGED <<execution_index, decrease_counter, n_active_tasks,
                   chunk_size, tx_statuses, done_marker, poisoned, loaded_index,
                   observed_decrease_counter, caller, aborted, given, locks, history>>

\* Variant with a fault: next_version_to_validate returns every index whose
\* cell is not ReadyToExecute.
NextVersionToValidateExecuted_NotReady(status) == status # "ReadyToExecute"

\* line 188: if *status == TransactionStatus::Executed
NextVersionToValidateExecuted(status) == status = "Executed"

\* lines 187-190: the status of the claimed index, read under its lock
NextVersionToValidateStatus(w) ==
    /\ pc[w] = "next_version_to_validate:187"
    /\ HoldsGuard(w, tx_index[w])
    /\ locks' = DropGuard(tx_index[w])
    /\ Jump(w, IF LockFails(tx_index[w]) THEN Panicked
               ELSE IF NextVersionToValidateExecuted(tx_statuses[tx_index[w]])
                    THEN NextVersionToValidateReturn(TRUE)
                    ELSE At("next_version_to_validate:192"))
    /\ validation_due' =
           IF ~LockFails(tx_index[w])
              /\ NextVersionToValidateExecuted(tx_statuses[tx_index[w]])
           THEN validation_due \ {tx_index[w]}
           ELSE validation_due
    /\ UNCHANGED <<shared, locals, given, n_aborts, n_strict_decreases,
                   superseded,
                   ledger>>

\* Variant with a fault: a failed validation reservation keeps its charge.
NextVersionToValidateRelease_Kept(w) ==
    /\ pc[w] = "next_version_to_validate:192"
    /\ Jump(w, NextVersionToValidateReturn(FALSE))
    /\ tx_index' = [tx_index EXCEPT ![w] = 0]
    /\ UNCHANGED <<n_active_tasks, execution_index, validation_index, decrease_counter,
                   chunk_size, tx_statuses, done_marker, poisoned, loaded_index,
                   observed_decrease_counter, caller, aborted, given, locks, history>>

\* lines 192-193: safe_decrement_n_active_tasks(); None
NextVersionToValidateRelease(w) ==
    /\ pc[w] = "next_version_to_validate:192"
    /\ SafeDecrementNActiveTasks(w, NextVersionToValidateReturn(FALSE))
    /\ tx_index' = [tx_index EXCEPT ![w] = 0]
    /\ UNCHANGED <<execution_index, validation_index, decrease_counter,
                   chunk_size, tx_statuses, done_marker, poisoned, loaded_index,
                   observed_decrease_counter, caller, aborted, given, locks, history>>

----------------------------------------------------------------------------
\* next_version_to_execute

\* Variant with a fault: the execution reservation goes on when it reads
\* execution_index = chunk_size.
NextVersionToExecuteLoad_OffByOne(w) ==
    /\ pc[w] = "next_version_to_execute:197"
    /\ IF execution_index > chunk_size
       THEN /\ caller' = [caller EXCEPT ![w] = "next_version_to_execute"]
            /\ Jump(w, At("check_done:113"))
       ELSE /\ caller' = caller
            /\ Jump(w, At("next_version_to_execute:202"))
    /\ UNCHANGED <<shared, tx_index, loaded_index, observed_decrease_counter,
                   aborted, given, locks, history>>

\* lines 197-201
NextVersionToExecuteLoad(w) ==
    /\ pc[w] = "next_version_to_execute:197"
    /\ IF execution_index >= chunk_size
       THEN /\ caller' = [caller EXCEPT ![w] = "next_version_to_execute"]
            /\ Jump(w, At("check_done:113"))
       ELSE /\ caller' = caller
            /\ Jump(w, At("next_version_to_execute:202"))
    /\ UNCHANGED <<shared, tx_index, loaded_index, observed_decrease_counter,
                   aborted, given, locks, history>>

\* line 202: n_active_tasks.fetch_add(1)
NextVersionToExecuteActivate(w) ==
    /\ pc[w] = "next_version_to_execute:202"
    /\ n_active_tasks' = n_active_tasks + 1
    /\ Jump(w, At("next_version_to_execute:203"))
    /\ UNCHANGED <<execution_index, validation_index, decrease_counter,
                   chunk_size, tx_statuses, done_marker, poisoned, locals, given, locks,
                   history>>

\* Variant with a fault: the execution reservation reads execution_index and
\* adds one to it in two steps, so two callers can be handed the same index.
NextVersionToExecuteFetchAdd_TwoSteps(w) ==
    /\ pc[w] = "next_version_to_execute:203"
    /\ \E index_to_execute \in {execution_index,
                                 IF execution_index > 0 THEN execution_index - 1 ELSE 0} :
          tx_index' = [tx_index EXCEPT ![w] = index_to_execute]
    /\ execution_index' = execution_index + 1
    /\ caller' = [caller EXCEPT ![w] = "next_version_to_execute"]
    /\ Jump(w, At("try_incarnate:167"))
    /\ UNCHANGED <<validation_index, decrease_counter, n_active_tasks,
                   chunk_size, tx_statuses, done_marker, poisoned, loaded_index,
                   observed_decrease_counter, aborted, given, locks, history>>

\* lines 203-204: index_to_execute = execution_index.fetch_add(1), then
\* try_incarnate(index_to_execute)
NextVersionToExecuteFetchAdd(w) ==
    /\ pc[w] = "next_version_to_execute:203"
    /\ execution_index' = execution_index + 1
    /\ tx_index' = [tx_index EXCEPT ![w] = execution_index]
    /\ caller' = [caller EXCEPT ![w] = "next_version_to_execute"]
    /\ Jump(w, At("try_incarnate:167"))
    /\ UNCHANGED <<validation_index, decrease_counter, n_active_tasks,
                   chunk_size, tx_statuses, done_marker, poisoned, loaded_index,
                   observed_decrease_counter, aborted, given, locks, history>>

----------------------------------------------------------------------------
\* check_done

\* line 113: observed_decrease_counter = decrease_counter.load()
CheckDoneObserve(w) ==
    /\ pc[w] = "check_done:113"
    /\ observed_decrease_counter' =
           [observed_decrease_counter EXCEPT ![w] = decrease_counter]
    /\ Jump(w, At("check_done:116"))
    /\ UNCHANGED <<shared, tx_index, loaded_index, caller, aborted, given, locks, history>>

\* line 116: validation_index.load(), the first argument of min
CheckDoneLoadValidationIndex(w) ==
    /\ pc[w] = "check_done:116"
    /\ loaded_index' = [loaded_index EXCEPT ![w] = validation_index]
    /\ Jump(w, At("check_done:117"))
    /\ UNCHANGED <<shared, tx_index, observed_decrease_counter, caller, aborted,
                   given, locks, history>>

\* Variant with a fault: check_done takes the max of the two indices.
CheckDoneIndicesPast_Max(loaded_validation_index, loaded_execution_index) ==
    \/ loaded_validation_index >= chunk_size
    \/ loaded_execution_index >= chunk_size

\* lines 115-118: min(validation_index, execution_index) >= chunk_size
CheckDoneIndicesPast(loaded_validation_index, loaded_execution_index) ==
    Min(loaded_validation_index, loaded_execution_index) >= chunk_size

\* line 117: execution_index.load(); && does not read on when the min is low
CheckDoneLoadExecutionIndex(w) ==
    /\ pc[w] = "check_done:117"
    /\ loaded_index' = [loaded_index EXCEPT ![w] = 0]
    /\ IF CheckDoneIndicesPast(loaded_index[w], execution_index)
       THEN /\ Jump(w, At("check_done:119"))
            /\ UNCHANGED <<observed_decrease_counter, caller>>
       ELSE /\ Jump(w, CheckDoneReturn(w))
            /\ observed_decrease_counter' =
                   [observed_decrease_counter EXCEPT ![w] = 0]
            /\ caller' = [caller EXCEPT ![w] = "none"]
    /\ UNCHANGED <<shared, tx_index, aborted, given, locks, history>>

\* Variant with a fault: check_done does not look at n_active_tasks.
CheckDoneNoActiveTasks_Skipped(loaded_n_active_tasks) == TRUE

\* line 119: n_active_tasks.load() == 0
CheckDoneNoActiveTasks(loaded_n_active_tasks) == loaded_n_active_tasks = 0

CheckDoneLoadNActiveTasks(w) ==
    /\ pc[w] = "check_done:119"
    /\ IF CheckDoneNoActiveTasks(n_active_tasks)
       THEN /\ Jump(w, At("check_done:120"))
            /\ UNCHANGED <<observed_decrease_counter, caller>>
       ELSE /\ Jump(w, CheckDoneReturn(w))
            /\ observed_decrease_counter' =
                   [observed_decrease_counter EXCEPT ![w] = 0]
            /\ caller' = [caller EXCEPT ![w] = "none"]
    /\ UNCHANGED <<shared, tx_index, loaded_index, aborted, given, locks, history>>

\* Variant with a fault: check_done does not read decrease_counter again.
CheckDoneSameCounter_Skipped(observed, loaded_decrease_counter) == TRUE

\* line 120: observed_decrease_counter == decrease_counter.load()
CheckDoneSameCounter(observed, loaded_decrease_counter) ==
    observed = loaded_decrease_counter

CheckDoneReloadCounter(w) ==
    /\ pc[w] = "check_done:120"
    /\ observed_decrease_counter' = [observed_decrease_counter EXCEPT ![w] = 0]
    /\ IF CheckDoneSameCounter(observed_decrease_counter[w], decrease_counter)
       THEN /\ Jump(w, At("check_done:122"))
            /\ caller' = caller
       ELSE /\ Jump(w, CheckDoneReturn(w))
            /\ caller' = [caller EXCEPT ![w] = "none"]
    /\ UNCHANGED <<shared, tx_index, loaded_index, aborted, given, locks, history>>

\* line 122: done_marker.store(true)
CheckDoneStore(w) ==
    /\ pc[w] = "check_done:122"
    /\ done_marker' = TRUE
    /\ Jump(w, CheckDoneReturn(w))
    /\ caller' = [caller EXCEPT ![w] = "none"]
    /\ UNCHANGED <<execution_index, validation_index, decrease_counter,
                   n_active_tasks, chunk_size, tx_statuses, poisoned, tx_index,
                   loaded_index, observed_decrease_counter, aborted, given, locks,
                   history>>

----------------------------------------------------------------------------
\* try_incarnate

\* Variant with a fault: try_incarnate also takes a cell that is Executed.
TryIncarnateReady_OrExecuted(status) ==
    status \in {"ReadyToExecute", "Executed"}

\* line 169: if *status == TransactionStatus::ReadyToExecute
TryIncarnateReady(status) == status = "ReadyToExecute"

\* Variant with a fault: try_incarnate does not write Executing.
TryIncarnateStatus_Unwritten(status) == status

\* lines 169-170: the status try_incarnate leaves in the cell.
TryIncarnateStatus(status) ==
    IF TryIncarnateReady(status) THEN "Executing" ELSE status

\* lines 167-173: one critical section of the cell
TryIncarnate(w) ==
    /\ pc[w] = "try_incarnate:167"
    /\ tx_index[w] < chunk_size => HoldsGuard(w, tx_index[w])
    /\ locks' = DropGuard(tx_index[w])
    /\ superseded' =
           IF tx_index[w] < chunk_size /\ ~LockFails(tx_index[w])
              /\ TryIncarnateReady(tx_statuses[tx_index[w]])
           THEN [x \in Workers |->
                    /\ x # w
                    /\ superseded[x] \/ HoldsValidationTask(x, tx_index[w])]
           ELSE superseded
    /\ next_task_executions' =
           IF tx_index[w] < chunk_size /\ ~LockFails(tx_index[w])
              /\ TryIncarnateReady(tx_statuses[tx_index[w]])
              /\ caller[w] = "next_version_to_execute"
           THEN [next_task_executions EXCEPT ![tx_index[w]] = @ + 1]
           ELSE next_task_executions
    /\ IF tx_index[w] < chunk_size
       THEN IF LockFails(tx_index[w])
            THEN /\ Jump(w, Panicked)
                 /\ UNCHANGED <<tx_statuses, caller>>
            ELSE /\ tx_statuses' = [tx_statuses EXCEPT ![tx_index[w]] =
                                        TryIncarnateStatus(@)]
                 /\ IF TryIncarnateReady(tx_statuses[tx_index[w]])
                    THEN /\ Jump(w, TryIncarnateReturn(w, TRUE))
                         /\ caller' = [caller EXCEPT ![w] = "none"]
                    ELSE /\ Jump(w, At("try_incarnate:174"))
                         /\ caller' = caller
       ELSE /\ Jump(w, At("try_incarnate:174"))
            /\ UNCHANGED <<tx_statuses, caller>>
    /\ UNCHANGED <<execution_index, validation_index, decrease_counter,
                   n_active_tasks, chunk_size, done_marker, poisoned, tx_index,
                   loaded_index, observed_decrease_counter, aborted, given,
                   n_aborts, n_strict_decreases, validation_due,
                   executed_once>>

\* lines 174-175: safe_decrement_n_active_tasks(); false
TryIncarnateRelease(w) ==
    /\ pc[w] = "try_incarnate:174"
    /\ SafeDecrementNActiveTasks(w, TryIncarnateReturn(w, FALSE))
    /\ caller' = [caller EXCEPT ![w] = "none"]
    /\ tx_index' = [tx_index EXCEPT ![w] =
                        IF caller[w] = "finish_validation" THEN @ ELSE 0]
    /\ UNCHANGED <<execution_index, validation_index, decrease_counter,
                   chunk_size, tx_statuses, done_marker, poisoned, loaded_index,
                   observed_decrease_counter, aborted, given, locks, history>>

----------------------------------------------------------------------------
\* finish_execution

\* Variant with a fault: set_executed_status does not assert the prior status.
SetExecutedStatusAssertion_Skipped(status) == TRUE

\* set_executed_status, lines 137-142: assert_eq!(*status, Executing)
SetExecutedStatusAssertion(status) == status = "Executing"

\* A worker at "executing" holds ExecutionTask(tx_index) and, the execution
\* over, calls finish_execution(tx_index).
\* set_executed_status, lines 136-143.  The assertion fails with the guard
\* held: the panic poisons the mutex and the status is not written.
SetExecutedStatus(w) ==
    /\ pc[w] = "executing"
    /\ HoldsGuard(w, tx_index[w])
    /\ locks' = DropGuard(tx_index[w])
    /\ IF LockFails(tx_index[w])
       THEN /\ Jump(w, Panicked)
            /\ UNCHANGED <<tx_statuses, poisoned>>
       ELSE IF SetExecutedStatusAssertion(tx_statuses[tx_index[w]])
            THEN /\ tx_statuses' = [tx_statuses EXCEPT ![tx_index[w]] = "Executed"]
                 /\ Jump(w, SetExecutedStatusReturn)
                 /\ UNCHANGED poisoned
            ELSE /\ Jump(w, Panicked)
                 /\ poisoned' = poisoned \cup {tx_index[w]}
                 /\ UNCHANGED tx_statuses
    /\ validation_due' =
           IF tx_statuses' # tx_statuses
           THEN validation_due \cup {i \in DOMAIN tx_statuses : i >= tx_index[w]}
           ELSE validation_due
    /\ executed_once' =
           IF tx_statuses' # tx_statuses
           THEN executed_once \cup {tx_index[w]}
           ELSE executed_once
    /\ UNCHANGED <<execution_index, validation_index, decrease_counter,
                   n_active_tasks, chunk_size, done_marker, locals, given,
                   n_aborts, n_strict_decreases, superseded,
                   next_task_executions>>

\* line 79: if validation_index.load() > tx_index
FinishExecutionLoad(w) ==
    /\ pc[w] = "finish_execution:79"
    /\ Jump(w, At(IF validation_index > tx_index[w]
                  THEN "decrease_validation_index:159"
                  ELSE "finish_execution:82"))
    /\ UNCHANGED <<shared, locals, given, locks, history>>

\* Variant with a fault: validation_index is not pulled back.
FetchMin_Kept(previous_validation_index, target_index) ==
    previous_validation_index

\* validation_index.fetch_min(target_index)
FetchMin(previous_validation_index, target_index) ==
    Min(previous_validation_index, target_index)

\* Variant with a fault: the counter is also incremented when the index stays the same.
DecreaseValidationIndexBumps_OrEqual(target_index, previous_validation_index) ==
    target_index <= previous_validation_index

\* line 160: if target_index < previous_validation_index
DecreaseValidationIndexBumps(target_index, previous_validation_index) ==
    target_index < previous_validation_index

\* Variant with a fault: the fetch_min pulls execution_index back as well.
DecreaseValidationIndex_BothIndices(w) ==
    /\ pc[w] = "decrease_validation_index:159"
    /\ validation_index' = FetchMin(validation_index, tx_index[w])
    /\ execution_index' = FetchMin(execution_index, tx_index[w])
    /\ n_strict_decreases' = n_strict_decreases +
                                 (IF validation_index' < validation_index
                                  THEN 1 ELSE 0)
    /\ Jump(w, IF DecreaseValidationIndexBumps(tx_index[w], validation_index)
               THEN At("decrease_validation_index:161")
               ELSE DecreaseValidationIndexReturn)
    /\ UNCHANGED <<decrease_counter, n_active_tasks,
                   chunk_size, tx_statuses, done_marker, poisoned, locals, given, locks,
                   n_aborts, validation_due, superseded,
                   ledger>>

\* decrease_validation_index, lines 158-160.  n_strict_decreases counts the
\* steps after which validation_index is lower than before.
DecreaseValidationIndex(w) ==
    /\ pc[w] = "decrease_validation_index:159"
    /\ validation_index' = FetchMin(validation_index, tx_index[w])
    /\ n_strict_decreases' = n_strict_decreases +
                                 (IF validation_index' < validation_index
                                  THEN 1 ELSE 0)
    /\ Jump(w, IF DecreaseValidationIndexBumps(tx_index[w], validation_index)
               THEN At("decrease_validation_index:161")
               ELSE DecreaseValidationIndexReturn)
    /\ UNCHANGED <<execution_index, decrease_counter, n_active_tasks,
                   chunk_size, tx_statuses, done_marker, poisoned, locals, given, locks,
                   n_aborts, validation_due, superseded,
                   ledger>>

\* decrease_validation_index, line 161: decrease_counter.fetch_add(1)
DecreaseCounterBump(w) ==
    /\ pc[w] = "decrease_validation_index:161"
    /\ decrease_counter' = decrease_counter + 1
    /\ Jump(w, DecreaseValidationIndexReturn)
    /\ UNCHANGED <<execution_index, validation_index, n_active_tasks,
                   chunk_size, tx_statuses, done_marker, poisoned, locals, given, locks,
                   history>>

\* line 82: safe_decrement_n_active_tasks()
FinishExecutionRelease(w) ==
    /\ pc[w] = "finish_execution:82"
    /\ SafeDecrementNActiveTasks(w, FinishExecutionReturn)
    /\ tx_index' = [tx_index EXCEPT ![w] = 0]
    /\ UNCHANGED <<execution_index, validation_index, decrease_counter,
                   chunk_size, tx_statuses, done_marker, poisoned, loaded_index,
                   observed_decrease_counter, caller, aborted, given, locks, history>>

----------------------------------------------------------------------------
\* try_validation_abort

\* Variant with a fault: a cell that is already Aborting can be aborted again.
TryValidationAbortExecuted_OrAborting(status) ==
    status \in {"Executed", "Aborting"}

\* line 87: if *status == TransactionStatus::Executed
TryValidationAbortExecuted(status) == status = "Executed"

\* A worker at "validating" holds ValidationTask(tx_index).  A validator that
\* finds the read set invalid calls try_validation_abort(tx_index) and then
\* finish_validation(tx_index, aborted) with the result; the validators of a
\* run find abort_budget validations invalid (in mode "locks" the call is a
\* step of its own, CallTryValidationAbort, and the lock is the next one).
\* lines 86-91: one critical section of the cell
TryValidationAbort(w) ==
    /\ IF mode = "locks"
       THEN pc[w] = "try_validation_abort:86" /\ HoldsGuard(w, tx_index[w])
       ELSE pc[w] = "validating" /\ n_aborts < abort_budget
    /\ locks' = DropGuard(tx_index[w])
    /\ IF LockFails(tx_index[w])
       THEN /\ Jump(w, Panicked)
            /\ UNCHANGED <<tx_statuses, aborted, n_aborts>>
       ELSE IF TryValidationAbortExecuted(tx_statuses[tx_index[w]])
            THEN /\ tx_statuses' = [tx_statuses EXCEPT ![tx_index[w]] = "Aborting"]
                 /\ aborted' = [aborted EXCEPT ![w] = TRUE]
                 /\ n_aborts' = n_aborts + 1
                 /\ Jump(w, TryValidationAbortReturn(TRUE))
            ELSE /\ aborted' = [aborted EXCEPT ![w] = FALSE]
                 /\ Jump(w, TryValidationAbortReturn(FALSE))
                 /\ UNCHANGED <<tx_statuses, n_aborts>>
    /\ UNCHANGED <<execution_index, validation_index, decrease_counter,
                   n_active_tasks, chunk_size, done_marker, poisoned, tx_index,
                   loaded_index, observed_decrease_counter, caller, given,
                   n_strict_decreases, validation_due, superseded,
                   ledger>>

----------------------------------------------------------------------------
\* finish_validation

\* set_ready_status, lines 148-153: assert_eq!(*status, Aborting)
SetReadyStatusAssertion(status) == status = "Aborting"

\* set_ready_status, lines 147-154
SetReadyStatus(w) ==
    /\ pc[w] = "set_ready_status:147"
    /\ HoldsGuard(w, tx_index[w])
    /\ locks' = DropGuard(tx_index[w])
    /\ IF LockFails(tx_index[w])
       THEN /\ Jump(w, Panicked)
            /\ UNCHANGED <<tx_statuses, poisoned>>
       ELSE IF SetReadyStatusAssertion(tx_statuses[tx_index[w]])
            THEN /\ tx_statuses' = [tx_statuses EXCEPT ![tx_index[w]] =
                                        "ReadyToExecute"]
                 /\ Jump(w, SetReadyStatusReturn)
                 /\ UNCHANGED poisoned
            ELSE /\ Jump(w, Panicked)
                 /\ poisoned' = poisoned \cup {tx_index[w]}
                 /\ UNCHANGED tx_statuses
    /\ UNCHANGED <<execution_index, validation_index, decrease_counter,
                   n_active_tasks, chunk_size, done_marker, locals, given, history>>

\* Variant with a fault: the aborted transaction is re-executed at once only
\* when execution_index is more than one above tx_index.
FinishValidationLoad_OffByOne(w) ==
    /\ pc[w] = "finish_validation:100"
    /\ IF execution_index > tx_index[w] + 1
       THEN /\ Jump(w, At("try_incarnate:167"))
            /\ caller' = [caller EXCEPT ![w] = "finish_validation"]
       ELSE /\ Jump(w, At("finish_validation:106"))
            /\ caller' = caller
    /\ UNCHANGED <<shared, tx_index, loaded_index, observed_decrease_counter,
                   aborted, given, locks, history>>

\* Variant with a fault: the aborted transaction is also re-executed at once
\* when execution_index = tx_index.
FinishValidationLoad_OrEqual(w) ==
    /\ pc[w] = "finish_validation:100"
    /\ IF execution_index >= tx_index[w]
       THEN /\ Jump(w, At("try_incarnate:167"))
            /\ caller' = [caller EXCEPT ![w] = "finish_validation"]
       ELSE /\ Jump(w, At("finish_validation:106"))
            /\ caller' = caller
    /\ UNCHANGED <<shared, tx_index, loaded_index, observed_decrease_counter,
                   aborted, given, locks, history>>

\* lines 100-101: if execution_index.load() > tx_index && try_incarnate(tx_index)
FinishValidationLoad(w) ==
    /\ pc[w] = "finish_validation:100"
    /\ IF execution_index > tx_index[w]
       THEN /\ Jump(w, At("try_incarnate:167"))
            /\ caller' = [caller EXCEPT ![w] = "finish_validation"]
       ELSE /\ Jump(w, At("finish_validation:106"))
            /\ caller' = caller
    /\ UNCHANGED <<shared, tx_index, loaded_index, observed_decrease_counter,
                   aborted, given, locks, history>>

\* lines 106-108: safe_decrement_n_active_tasks(); Task::NoTask.  A validator
\* that finds the read set valid calls finish_validation(tx_index, false) from
\* "validating" and comes here at once.
FinishValidationRelease(w) ==
    /\ \/ pc[w] = "finish_validation:106"
       \/ pc[w] = "validating" /\ InLoop
    /\ SafeDecrementNActiveTasks(w, FinishValidationReturn("NoTask"))
    /\ tx_index' = [tx_index EXCEPT ![w] = 0]
    /\ aborted' = [aborted EXCEPT ![w] = FALSE]
    /\ superseded' = [superseded EXCEPT ![w] = FALSE]
    /\ UNCHANGED <<execution_index, validation_index, decrease_counter,
                   chunk_size, tx_statuses, done_marker, poisoned, loaded_index,
                   observed_decrease_counter, caller, given, locks,
                   n_aborts, n_strict_decreases, validation_due,
                   ledger>>

----------------------------------------------------------------------------
Step(w) ==
    \/ NextTaskDone(w)
    \/ NextTaskLoadValidationIndex(w)
    \/ NextTaskLoadExecutionIndex(w)
    \/ NextVersionToValidateLoad(w)
    \/ NextVersionToValidateActivate(w)
    \/ NextVersionToValidateFetchAdd(w)
    \/ NextVersionToValidateStatus(w)
    \/ NextVersionToValidateRelease(w)
    \/ NextVersionToExecuteLoad(w)
    \/ NextVersionToExecuteActivate(w)
    \/ NextVersionToExecuteFetchAdd(w)
    \/ CheckDoneObserve(w)
    \/ CheckDoneLoadValidationIndex(w)
    \/ CheckDoneLoadExecutionIndex(w)
    \/ CheckDoneLoadNActiveTasks(w)
    \/ CheckDoneReloadCounter(w)
    \/ CheckDoneStore(w)
    \/ TryIncarnate(w)
    \/ TryIncarnateRelease(w)
    \/ SetExecutedStatus(w)
    \/ FinishExecutionLoad(w)
    \/ DecreaseValidationIndex(w)
    \/ DecreaseCounterBump(w)
    \/ FinishExecutionRelease(w)
    \/ TryValidationAbort(w)
    \/ SetReadyStatus(w)
    \/ FinishValidationLoad(w)
    \/ FinishValidationRelease(w)

Next == \E w \in Workers : Step(w)

----------------------------------------------------------------------------
\* lock_tx_status as a step of its own (mode "locks")

\* The positions where a worker calls lock_tx_status(tx_index): line 187,
\* line 168 (try_incarnate with tx_index < chunk_size), line 136
\* (set_executed_status), line 86 (try_validation_abort) and line 147.
AtLock(w) ==
    /\ mode = "locks"
    /\ pc[w] \in {"next_version_to_validate:187", "try_incarnate:167",
                 "executing", "try_validation_abort:86", "set_ready_status:147"}
    /\ pc[w] = "try_incarnate:167" => tx_index[w] < chunk_size
    /\ ~LockFails(tx_index[w])

\* Mutex::lock returns when the mutex is free and blocks the caller until then.
LockTxStatus(w) ==
    /\ AtLock(w)
    /\ locks[tx_index[w]] = 0
    /\ locks' = [locks EXCEPT ![tx_index[w]] = w]
    /\ UNCHANGED <<shared, pc, result, locals, given, history>>

\* A validator that finds the read set invalid calls try_validation_abort.
CallTryValidationAbort(w) ==
    /\ mode = "locks"
    /\ pc[w] = "validating"
    /\ n_aborts < abort_budget
    /\ Jump(w, At("try_validation_abort:86"))
    /\ UNCHANGED <<shared, locks, locals, given, history>>

StepLocks(w) == Step(w) \/ LockTxStatus(w) \/ CallTryValidationAbort(w)

NextLocks == \E w \in Workers : StepLocks(w)

\* The runs of a chunk: N workers in the loop on a new scheduler.
Spec == InitContract /\ [][Next]_vars

\* The threads of the workers are scheduled by the operating system: a
\* worker that can take a step takes one in the end.
Fairness == \A w \in Workers : WF_vars(StepLocks(w))

\* The runs with the mutexes taken step by step, and the single calls.
SpecLocks == (InitLockSteps \/ InitUnit) /\ [][NextLocks]_vars /\ Fairness

\* One call of one function on an arbitrary scheduler, and the runs of a
\* chunk.
\* The worker loop alone with the mutexes taken step by step, every worker
\* scheduled again and again.
SpecFair == InitLockSteps /\ [][NextLocks]_vars /\ Fairness

SpecAll == (InitContract \/ InitUnit) /\ [][Next]_vars

----------------------------------------------------------------------------
\* The positions of a worker, for the properties below.

\* finish_execution(i) after its status change and before its return.
FinishExecutionRest ==
    {"finish_execution:79", "decrease_validation_index:159",
     "decrease_validation_index:161", "finish_execution:82"}

\* From the return of ExecutionTask(i) to the return of finish_execution(i).
HoldsExecutionTask(w, i) ==
    /\ pc[w] \in {"executing"} \cup FinishExecutionRest
    /\ tx_index[w] = i

HoldsTask(w) ==
    \E i \in 0..(chunk_size - 1) : HoldsExecutionTask(w, i) \/ HoldsValidationTask(w, i)

\* Inside next_version_to_validate or next_version_to_execute, after the
\* fetch_add on n_active_tasks and before the return or the release.
InReservation(w) ==
    \/ pc[w] \in {"next_version_to_validate:185", "next_version_to_validate:187",
                  "next_version_to_validate:192", "next_version_to_execute:203"}
    \/ /\ pc[w] \in {"try_incarnate:167", "try_incarnate:174"}
       /\ caller[w] = "next_version_to_execute"

AllExecuted == \A i \in DOMAIN tx_statuses : tx_statuses[i] = "Executed"

\* The step that stores done = true for the first time.
DoneLatches == ~done_marker /\ done_marker'

----------------------------------------------------------------------------
\* C1: in every run of the worker loop from Scheduler::new, in the state
\* reached by the step of check_done that stores done = true, every cell
\* 0..chunk_size-1 is Executed.
C1_AllExecutedWhenDoneLatches ==
    [][DoneLatches => AllExecuted']_vars

C1_Witness ==
    /\ done_marker
    /\ chunk_size = 2
    /\ AllExecuted

\* C2: whenever done is true, no worker holds an ExecutionTask(i) or a
\* ValidationTask(i) for which finish_execution / finish_validation has not
\* returned.
C2_NoTaskInFlightWhenDone ==
    done_marker => \A w \in Workers : ~HoldsTask(w)

C2_Witness ==
    /\ done_marker
    /\ n_aborts = 1
    /\ \A w \in Workers : ~HoldsTask(w)

\* C3 as stated: in the state reached by the step that stores done = true,
\* min(validation_index, execution_index) >= chunk_size and
\* n_active_tasks = 0.
C3_Original ==
    [][DoneLatches =>
          /\ Min(validation_index', execution_index') >= chunk_size
          /\ n_active_tasks' = 0]_vars

\* C3 as amended: in the state reached by the step that stores done = true,
\* min(validation_index, execution_index) >= chunk_size, no worker holds an
\* issued task, and n_active_tasks is the number of workers inside a
\* reservation (after its fetch_add on n_active_tasks, before its release),
\* which may be more than 0.
C3_DoneLatchState ==
    [][DoneLatches =>
          /\ Min(validation_index', execution_index') >= chunk_size
          /\ \A w \in Workers : ~HoldsTask(w)'
          /\ n_active_tasks' = Cardinality({w \in Workers : InReservation(w)'})]_vars

C3_Witness ==
    /\ ~done_marker
    /\ \E w \in Workers : pc[w] = "check_done:122"
    /\ n_active_tasks > 0

\* C4: after done has become true no step lowers validation_index and
\* decrease_counter never changes again.
C4_NoRollbackAfterDone ==
    [][done_marker =>
          /\ validation_index' >= validation_index
          /\ decrease_counter' = decrease_counter]_vars

C4_Witness ==
    /\ done_marker
    /\ n_strict_decreases >= 2
    /\ validation_index > chunk_size

\* C5: once done is true no step returns an ExecutionTask or a ValidationTask:
\* no worker comes to hold a task, whether its next_task call passed the done
\* check before the latch or it is inside finish_validation.
C5_NoTaskIssuedAfterDone ==
    [][done_marker =>
          \A w \in Workers :
             pc'[w] \in {"executing", "validating"} => pc[w] = pc'[w]]_vars

C5_Witness ==
    /\ done_marker
    /\ \E w \in Workers :
          pc[w] \in {"next_version_to_validate:185", "next_version_to_execute:203"}

\* C6: done is never reset to false, and a next_task call that starts when
\* done is true returns Done and changes nothing of the scheduler.
C6_DoneIsALatch ==
    [][done_marker =>
          /\ done_marker'
          /\ \A w \in Workers :
                (pc[w] = "idle" /\ pc'[w] # "idle") =>
                    pc'[w] = "exited" /\ UNCHANGED shared]_vars

C6_Witness ==
    /\ done_marker
    /\ \E w \in Workers : pc[w] = "exited"
    /\ \E w \in Workers : pc[w] = "check_done:122"

\* C7: n_active_tasks never goes below zero: no worker is about to run
\* safe_decrement_n_active_tasks with n_active_tasks = 0 and none has panicked.
ReleasePositions ==
    {"next_version_to_validate:192", "try_incarnate:174", "finish_execution:82",
     "finish_validation:106", "validating"}

C7_NoUnderflow ==
    /\ n_active_tasks >= 0
    /\ \A w \in Workers :
          /\ pc[w] # "panicked"
          /\ pc[w] \in ReleasePositions => n_active_tasks > 0

C7_Witness ==
    /\ n_active_tasks = 1
    /\ \E w \in Workers :
          pc[w] = "try_incarnate:174" /\ caller[w] = "next_version_to_execute"

\* C8 as stated: for each index i at most one worker is between receiving
\* ExecutionTask(i) and the return of finish_execution(i), and cell i is
\* Executing exactly while there is one.
C8_Original ==
    \A i \in DOMAIN tx_statuses :
       /\ Cardinality({w \in Workers : HoldsExecutionTask(w, i)}) <= 1
       /\ tx_statuses[i] = "Executing" <=>
             \E w \in Workers : HoldsExecutionTask(w, i)

\* C8 as amended: for each index i at most one worker is between receiving
\* ExecutionTask(i) and the status change of finish_execution(i)
\* (set_executed_status), and cell i is Executing exactly while there is one.
C8_OneExecutorPerIndex ==
    \A i \in DOMAIN tx_statuses :
       /\ Cardinality({w \in Workers : pc[w] = "executing" /\ tx_index[w] = i}) <= 1
       /\ tx_statuses[i] = "Executing" <=>
             \E w \in Workers : pc[w] = "executing" /\ tx_index[w] = i

C8_Witness ==
    \E w1, w2 \in Workers :
       /\ pc[w1] = "executing"
       /\ pc[w2] \in FinishExecutionRest
       /\ tx_index[w1] = tx_index[w2]

\* C9: decrease_validation_index(target) sets validation_index to
\* min(validation_index, target), and increments decrease_counter by one when
\* the previous value was > target and not at all otherwise; nothing else
\* changes the counter.  So decrease_counter equals the number of steps that
\* lowered validation_index, less the calls that are between their fetch_min
\* and their increment of the counter.
C9_DecreaseCounterCounts ==
    /\ [](n_strict_decreases =
              decrease_counter +
              Cardinality({w \in Workers : pc[w] = "decrease_validation_index:161"}))
    /\ [][/\ \A w \in Workers :
               /\ (pc[w] = "decrease_validation_index:159" /\ pc'[w] # pc[w]) =>
                      /\ validation_index' =
                            (IF tx_index[w] < validation_index
                             THEN tx_index[w] ELSE validation_index)
                      /\ decrease_counter' = decrease_counter
                      /\ pc'[w] = "decrease_validation_index:161" <=>
                            validation_index > tx_index[w]
               /\ (pc[w] = "decrease_validation_index:161" /\ pc'[w] # pc[w]) =>
                      decrease_counter' = decrease_counter + 1
          /\ decrease_counter' # decrease_counter =>
                \E w \in Workers :
                   pc[w] = "decrease_validation_index:161" /\ pc'[w] # pc[w]]_vars

C9_Witness ==
    /\ decrease_counter = 2
    /\ n_strict_decreases = 2
    /\ validation_index >= chunk_size

\* C10: a cell changes only along ReadyToExecute -> Executing -> Executed ->
\* Aborting -> ReadyToExecute; in the runs of the worker loop no assertion
\* fails; set_executed_status on a cell that is not Executing and
\* set_ready_status on a cell that is not Aborting panic and leave the cell
\* as it was.
Lifecycle ==
    {<<"ReadyToExecute", "Executing">>, <<"Executing", "Executed">>,
     <<"Executed", "Aborting">>, <<"Aborting", "ReadyToExecute">>}

C10_Lifecycle ==
    /\ [](mode = "contract" => \A w \in Workers : pc[w] # "panicked")
    /\ [][/\ \A i \in DOMAIN tx_statuses :
               tx_statuses'[i] # tx_statuses[i] =>
                   <<tx_statuses[i], tx_statuses'[i]>> \in Lifecycle
          /\ \A w \in Workers :
               /\ pc'[w] # pc[w]
               /\ tx_index[w] \in DOMAIN tx_statuses
               /\ \/ pc[w] = "executing" /\ tx_statuses[tx_index[w]] # "Executing"
                  \/ pc[w] = "set_ready_status:147"
                       /\ tx_statuses[tx_index[w]] # "Aborting"
               => pc'[w] = "panicked" /\ tx_statuses' = tx_statuses]_vars

C10_Witness ==
    /\ mode = "finish_validation"
    /\ pc[1] = "panicked"
    /\ tx_index[1] \in DOMAIN tx_statuses
    /\ tx_statuses[tx_index[1]] = "Executed"
    /\ poisoned = {tx_index[1]}

----------------------------------------------------------------------------
\* Single calls: the scheduler the call started on.

\* The call was made on the scheduler that Scheduler::new(n) returns.
PreIsNew(n) ==
    /\ pre.chunk_size = n
    /\ pre.execution_index = 0
    /\ pre.validation_index = n
    /\ pre.decrease_counter = 0
    /\ pre.n_active_tasks = 0
    /\ ~pre.done_marker
    /\ \A i \in DOMAIN pre.tx_statuses : pre.tx_statuses[i] = "ReadyToExecute"

\* The scheduler is as it was when the call started.
SchedulerUnchanged ==
    /\ execution_index = pre.execution_index
    /\ validation_index = pre.validation_index
    /\ decrease_counter = pre.decrease_counter
    /\ n_active_tasks = pre.n_active_tasks
    /\ tx_statuses = pre.tx_statuses
    /\ done_marker = pre.done_marker

\* Worker 1 called f and the call has returned.
HasReturned(f) == mode = f /\ pc[1] = "returned"

----------------------------------------------------------------------------
\* C11: on a scheduler created with chunk_size = 0 the first next_task call
\* returns NoTask and has latched done when it returns (so that the next call
\* returns Done).
C11_Original ==
    HasReturned("next_task") /\ PreIsNew(0)
        => result = "NoTask" /\ done_marker

\* C12: termination.  With the workers in their loops on a new scheduler,
\* every worker scheduled again and again and only abort_budget validations
\* found invalid, done becomes true in the end and every worker gets Done
\* from next_task and leaves its loop.
C12_Original ==
    mode = "locks" =>
        <>(done_marker /\ \A w \in Workers : pc[w] \in {"exited", "off"})

----------------------------------------------------------------------------
\* C13: in every state of a run of the worker loop n_active_tasks is the
\* number of workers that hold an issued, unfinished ExecutionTask or
\* ValidationTask plus the number of workers inside a reservation after its
\* fetch_add on n_active_tasks and before its return or release; and a
\* next_task call leaves n_active_tasks one higher when it returns
\* ExecutionTask or ValidationTask and as it was when it returns NoTask or
\* Done.
Charged == {w \in Workers : HoldsTask(w) \/ InReservation(w)}

C13_ActiveSlotAccounting ==
    /\ mode = "contract" => n_active_tasks = Cardinality(Charged)
    /\ HasReturned("next_task") =>
           n_active_tasks = pre.n_active_tasks +
               (IF result \in {"ExecutionTask", "ValidationTask"} THEN 1 ELSE 0)

C13_Witness ==
    /\ mode = "contract"
    /\ n_active_tasks = 2
    /\ \E w \in Workers : HoldsTask(w)
    /\ \E w \in Workers : InReservation(w)

----------------------------------------------------------------------------
\* C14: no step of next_task, finish_execution, try_validation_abort,
\* finish_validation or check_done lowers execution_index; it changes only
\* by one, in the step of next_version_to_execute that does the fetch_add.
C14_ExecutionIndexMonotone ==
    [][/\ execution_index' >= execution_index
       /\ execution_index' # execution_index =>
              /\ execution_index' = execution_index + 1
              /\ \E w \in Workers :
                    /\ pc[w] = "next_version_to_execute:203"
                    /\ pc'[w] = "try_incarnate:167"
                    /\ tx_index'[w] = execution_index]_vars

C14_Witness ==
    /\ mode = "contract"
    /\ chunk_size >= 1
    /\ execution_index > chunk_size
    /\ \E w \in Workers : pc[w] = "try_incarnate:167" /\ tx_index[w] = chunk_size

----------------------------------------------------------------------------
\* C15: no worker holds the lock of more than one status cell, no worker
\* waits for the lock of a cell while it holds another, there is no state in
\* which every worker of the loop is blocked on a cell lock, and a worker
\* that waits for a cell lock gets it in the end when every worker is
\* scheduled again and again.

\* Worker w is in lock_tx_status and has not got the guard yet.
WaitsForLock(w) == AtLock(w) /\ locks[tx_index[w]] # w

\* Worker w waits for a mutex that another worker holds.
Blocked(w) == WaitsForLock(w) /\ locks[tx_index[w]] # 0

C15_NoDeadlock ==
    /\ [](\A w \in Workers :
             /\ Cardinality(Guards(w)) <= 1
             /\ WaitsForLock(w) => Guards(w) = {})
    /\ [](mode = "locks" => \E w \in Workers : pc[w] # "off" /\ ~Blocked(w))
    /\ \A w \in Workers :
          WaitsForLock(w) ~> (AtLock(w) /\ locks[tx_index[w]] = w)

C15_Witness ==
    /\ \E w \in Workers : Blocked(w)
    /\ \E w \in Workers : AtLock(w) /\ locks[tx_index[w]] = w

----------------------------------------------------------------------------
\* C16: in the runs of the worker loop, for all indices j <= i < chunk_size,
\* once finish_execution(j) has set cell j to Executed, done is not true
\* before a ValidationTask(i) has been issued after that change of status.
C16_NoMissedRevalidation == InLoop /\ done_marker => validation_due = {}

C16_Witness ==
    /\ mode = "contract"
    /\ done_marker
    /\ n_aborts = 1
    /\ chunk_size = 2
    /\ validation_due = {}

----------------------------------------------------------------------------
\* Single calls: what the call was given.

\* The argument tx_index of the call is an index of tx_statuses.
PreIndexInRange == pre.tx_index \in DOMAIN pre.tx_statuses

\* The status of cell tx_index when the call started.
PreStatus == pre.tx_statuses[pre.tx_index]

\* Only cell tx_index has changed, and it holds status now.
OnlyCellChanged(status) ==
    tx_statuses = [pre.tx_statuses EXCEPT ![pre.tx_index] = status]

----------------------------------------------------------------------------
\* C17: finish_execution(i) called on its own on a state where cell i is
\* Executing and n_active_tasks >= 1 returns with cell i Executed,
\* validation_index = min(i, old validation_index), decrease_counter one
\* higher iff the old validation_index was above i, n_active_tasks one
\* lower, and execution_index, done and every other cell as they were.
C17_FinishExecutionEffect ==
    /\ mode = "finish_execution"
    /\ PreIndexInRange
    /\ PreStatus = "Executing"
    /\ pre.n_active_tasks >= 1
    => /\ pc[1] # "panicked"
       /\ pc[1] = "returned" =>
             /\ OnlyCellChanged("Executed")
             /\ validation_index = Min(pre.tx_index, pre.validation_index)
             /\ decrease_counter = pre.decrease_counter +
                    (IF pre.validation_index > pre.tx_index THEN 1 ELSE 0)
             /\ n_active_tasks = pre.n_active_tasks - 1
             /\ execution_index = pre.execution_index
             /\ done_marker = pre.done_marker

C17_Witness ==
    /\ HasReturned("finish_execution")
    /\ PreIndexInRange
    /\ PreStatus = "Executing"
    /\ pre.n_active_tasks = 1
    /\ pre.validation_index = chunk_size + 1
    /\ validation_index = pre.tx_index
    /\ decrease_counter = pre.decrease_counter + 1

----------------------------------------------------------------------------
----------------------------------------------------------------------------
\* C19: try_validation_abort(i) returns true iff cell i is Executed when it
\* is called, and then cell i is Aborting; on ReadyToExecute, Executing or
\* Aborting it returns false and changes nothing; n_active_tasks, the
\* indices, decrease_counter and done keep their values.

\* The part about one call.
TryValidationAbortEffect ==
    mode = "try_validation_abort" =>
        /\ execution_index = pre.execution_index
        /\ validation_index = pre.validation_index
        /\ decrease_counter = pre.decrease_counter
        /\ n_active_tasks = pre.n_active_tasks
        /\ done_marker = pre.done_marker
        /\ PreIndexInRange => pc[1] # "panicked"
        /\ pc[1] = "returned" =>
              /\ result = "true" <=> PreStatus = "Executed"
              /\ IF result = "true"
                 THEN OnlyCellChanged("Aborting")
                 ELSE tx_statuses = pre.tx_statuses

\* The workers whose try_validation_abort(i) has returned true and whose
\* set_ready_status(i) has not run yet.
Aborters(i) ==
    {w \in Workers : pc[w] = "set_ready_status:147" /\ tx_index[w] = i}

\* As stated: and among the workers that hold ValidationTask(i) for the same
\* incarnation at most one call returns true.  Two such calls return true
\* exactly when some call returns true for a worker whose task was issued
\* for an incarnation that has been re-executed since (the cell is Executed
\* only once per incarnation).
C19_Original ==
    /\ TryValidationAbortEffect
    /\ InLoop => \A i \in DOMAIN tx_statuses : \A w \in Aborters(i) : ~superseded[w]

\* As the code has it: and at most one call returns true as long as cell i
\* stays in the incarnation the call found Executed: the cell is Aborting
\* exactly while one worker is between its call that returned true and its
\* set_ready_status(i).
C19_OneAbortPerExecuted ==
    /\ TryValidationAbortEffect
    /\ InLoop => \A i \in DOMAIN tx_statuses :
                    /\ Cardinality(Aborters(i)) <= 1
                    /\ tx_statuses[i] = "Aborting" <=> Aborters(i) # {}

C19_Witness ==
    /\ mode = "locks"
    /\ \E w \in Workers :
          /\ pc[w] = "finish_validation:106"
          /\ ~aborted[w]
          /\ ~superseded[w]
          /\ Aborters(tx_index[w]) # {}

----------------------------------------------------------------------------
\* C20: a next_task call made with done false, validation_index >= chunk_size
\* and execution_index >= chunk_size returns NoTask and changes nothing of
\* the scheduler: n_active_tasks, execution_index, validation_index,
\* decrease_counter, done and all cells are as before, in every state of the
\* call.  Among other workers the same holds of the step that ends the call:
\* with both loaded indices past the end it returns NoTask and changes
\* nothing of the scheduler.
NextTaskOnIdleScheduler ==
    /\ mode = "next_task"
    /\ ~pre.done_marker
    /\ pre.validation_index >= pre.chunk_size
    /\ pre.execution_index >= pre.chunk_size
    => /\ SchedulerUnchanged
       /\ pc[1] # "panicked"
       /\ pc[1] \in {"idle", "next_task:54", "next_task:55", "returned"}
       /\ pc[1] = "returned" => result = "NoTask"

C20_NoTaskPastTheEnd ==
    /\ []NextTaskOnIdleScheduler
    /\ [][\A w \in Workers :
              /\ pc[w] = "next_task:55"
              /\ pc'[w] # pc[w]
              /\ loaded_index[w] >= chunk_size
              /\ execution_index >= chunk_size
              => /\ UNCHANGED shared
                 /\ IF InLoop THEN pc'[w] = "idle"
                    ELSE pc'[w] = "returned" /\ result' = "NoTask"]_vars

C20_Witness ==
    /\ HasReturned("next_task")
    /\ result = "NoTask"
    /\ ~pre.done_marker
    /\ pre.chunk_size = 1
    /\ pre.validation_index = 2
    /\ pre.execution_index = 1
    /\ pre.n_active_tasks = 0
    /\ SchedulerUnchanged

----------------------------------------------------------------------------
\* A call of next_task made on its own on a scheduler whose done flag is
\* false and whose validation_index is below execution_index and chunk_size.
NextTaskValidationFirst ==
    /\ mode = "next_task"
    /\ ~pre.done_marker
    /\ pre.validation_index < pre.execution_index
    /\ pre.validation_index < pre.chunk_size

\* C21: next_task called on its own with done false, validation_index = v <
\* execution_index, v < chunk_size and cell v Executed returns
\* ValidationTask(v) with validation_index = v + 1, n_active_tasks one
\* higher, and execution_index and every cell (cell v Executed) as they were.
C21_NextTaskValidates ==
    NextTaskValidationFirst
    /\ pre.tx_statuses[pre.validation_index] = "Executed"
    => /\ pc[1] # "panicked"
       /\ pc[1] = "returned" =>
             /\ result = "ValidationTask"
             /\ tx_index[1] = pre.validation_index
             /\ validation_index = pre.validation_index + 1
             /\ execution_index = pre.execution_index
             /\ n_active_tasks = pre.n_active_tasks + 1
             /\ tx_statuses = pre.tx_statuses
             /\ tx_statuses[pre.validation_index] = "Executed"

C21_Witness ==
    /\ HasReturned("next_task")
    /\ NextTaskValidationFirst
    /\ pre.tx_statuses[pre.validation_index] = "Executed"
    /\ pre.validation_index = 1
    /\ result = "ValidationTask"
    /\ tx_index[1] = 1
    /\ n_active_tasks = pre.n_active_tasks + 1

----------------------------------------------------------------------------
\* C22: next_task called on its own with done false, validation_index = v <
\* execution_index = e, v < chunk_size and cell v not Executed leaves
\* validation_index = v + 1 and gives the validation charge back, then tries
\* the execution reservation: with e < chunk_size and cell e ReadyToExecute
\* it returns ExecutionTask(e), cell e Executing, execution_index = e + 1 and
\* n_active_tasks one higher; with e >= chunk_size it returns NoTask,
\* n_active_tasks as it was.
C22_NextTaskFallsThrough ==
    NextTaskValidationFirst
    /\ pre.tx_statuses[pre.validation_index] # "Executed"
    => /\ pc[1] # "panicked"
       /\ pc[1] = "returned" =>
             /\ validation_index = pre.validation_index + 1
             /\ IF pre.execution_index < pre.chunk_size
                THEN pre.tx_statuses[pre.execution_index] = "ReadyToExecute" =>
                        /\ result = "ExecutionTask"
                        /\ tx_index[1] = pre.execution_index
                        /\ tx_statuses = [pre.tx_statuses EXCEPT
                                             ![pre.execution_index] = "Executing"]
                        /\ execution_index = pre.execution_index + 1
                        /\ n_active_tasks = pre.n_active_tasks + 1
                ELSE /\ result = "NoTask"
                     /\ n_active_tasks = pre.n_active_tasks
                     /\ execution_index = pre.execution_index
                     /\ tx_statuses = pre.tx_statuses

C22_Witness ==
    /\ HasReturned("next_task")
    /\ NextTaskValidationFirst
    /\ pre.tx_statuses[pre.validation_index] = "Aborting"
    /\ pre.execution_index = 1
    /\ pre.tx_statuses[1] = "ReadyToExecute"
    /\ result = "ExecutionTask"
    /\ tx_statuses[1] = "Executing"
    /\ validation_index = 1

----------------------------------------------------------------------------
\* C23: try_incarnate(i) called on its own by the holder of one charge
\* (n_active_tasks >= 1) returns true iff i < chunk_size and cell i is
\* ReadyToExecute, and then cell i is Executing and n_active_tasks is as it
\* was; otherwise (i = chunk_size included) it returns false, every cell is
\* as it was and n_active_tasks is one lower.
C23_TryIncarnateEffect ==
    mode = "try_incarnate" /\ pre.n_active_tasks >= 1
    => /\ pc[1] # "panicked"
       /\ pc[1] = "returned" =>
             /\ result = "true" <=> PreIndexInRange /\ PreStatus = "ReadyToExecute"
             /\ result = "true" =>
                   /\ OnlyCellChanged("Executing")
                   /\ n_active_tasks = pre.n_active_tasks
             /\ result # "true" =>
                   /\ result = "false"
                   /\ tx_statuses = pre.tx_statuses
                   /\ n_active_tasks = pre.n_active_tasks - 1

C23_Witness ==
    /\ HasReturned("try_incarnate")
    /\ pre.n_active_tasks = 1
    /\ pre.tx_index = pre.chunk_size
    /\ pre.chunk_size = 2
    /\ result = "false"
    /\ n_active_tasks = 0

----------------------------------------------------------------------------
\* The steps that change the done flag.
DoneWrittenOnlyByCheckDone ==
    [][done_marker' # done_marker =>
          /\ done_marker'
          /\ \E w \in Workers : pc[w] = "check_done:122" /\ pc'[w] # pc[w]]_vars

\* The condition check_done tests, on the state it was called in.
PreCheckDoneCondition ==
    /\ pre.validation_index >= pre.chunk_size
    /\ pre.execution_index >= pre.chunk_size
    /\ pre.n_active_tasks = 0

\* C24: done is written by check_done only, and only with true.  check_done
\* called on its own leaves done true iff validation_index >= chunk_size,
\* execution_index >= chunk_size and n_active_tasks = 0, or done was true
\* already, and changes neither index, nor n_active_tasks, decrease_counter
\* or any cell.
C24_CheckDoneEffect ==
    /\ DoneWrittenOnlyByCheckDone
    /\ [](mode = "check_done" =>
             /\ pc[1] # "panicked"
             /\ execution_index = pre.execution_index
             /\ validation_index = pre.validation_index
             /\ n_active_tasks = pre.n_active_tasks
             /\ decrease_counter = pre.decrease_counter
             /\ tx_statuses = pre.tx_statuses
             /\ pc[1] = "returned" =>
                   done_marker = (pre.done_marker \/ PreCheckDoneCondition))

C24_Witness ==
    /\ HasReturned("check_done")
    /\ ~pre.done_marker
    /\ PreCheckDoneCondition
    /\ pre.chunk_size = 2
    /\ done_marker

----------------------------------------------------------------------------
\* The step of worker w in which next_task returns ValidationTask(tx_index[w]).
IssuesValidationTask(w) ==
    /\ pc[w] = "next_version_to_validate:187"
    /\ pc'[w] = "validating"

\* C25: in every run of the worker loop from Scheduler::new, the step in
\* which next_task returns ValidationTask(i) reads cell i as Executed, a
\* finish_execution(i) has completed its status change before it, and an
\* ExecutionTask has been issued before it: the first task issued is an
\* ExecutionTask.
C25_ValidatedAfterExecuted ==
    [][InLoop =>
          \A w \in Workers :
             IssuesValidationTask(w) =>
                /\ tx_statuses[tx_index[w]] = "Executed"
                /\ tx_index[w] \in executed_once
                /\ \E i \in DOMAIN tx_statuses : next_task_executions[i] >= 1]_vars

C25_Witness ==
    /\ mode = "contract"
    /\ n_aborts = 0
    /\ \E w \in Workers :
          /\ pc[w] = "validating"
          /\ tx_index[w] = 1
          /\ tx_index[w] \in executed_once
          /\ 0 \notin executed_once

----------------------------------------------------------------------------
\* C26: in every run of the worker loop, execution_index > i while a worker
\* holds ValidationTask(i); so finish_validation(i, true) after a successful
\* try_validation_abort(i) finds cell i ReadyToExecute in its try_incarnate,
\* which succeeds, and never takes the branch that releases the charge and
\* returns NoTask (lines 106-108).
C26_AbortReexecutesAtOnce ==
    InLoop =>
       \A w \in Workers :
          /\ \A i \in DOMAIN tx_statuses :
                HoldsValidationTask(w, i) => execution_index > i
          /\ pc[w] = "try_incarnate:167" /\ caller[w] = "finish_validation"
                => tx_statuses[tx_index[w]] = "ReadyToExecute"
          /\ ~(pc[w] = "try_incarnate:174" /\ caller[w] = "finish_validation")
          /\ ~(pc[w] = "finish_validation:106" /\ aborted[w])

C26_Witness ==
    /\ mode = "contract"
    /\ n_aborts = 1
    /\ \E w \in Workers :
          /\ pc[w] = "try_incarnate:167"
          /\ caller[w] = "finish_validation"
          /\ tx_index[w] = 1
          /\ execution_index = 2
          /\ \E x \in Workers : HoldsValidationTask(x, 0) /\ x # w

----------------------------------------------------------------------------
\* The step of worker w in which it receives ExecutionTask(tx_index'[w]).
IssuesExecutionTask(w) ==
    /\ pc[w] = "try_incarnate:167"
    /\ pc'[w] = "executing"

\* C28: in every run of the worker loop from Scheduler::new, next_task
\* returns ExecutionTask(i) at most once for each index i; the try_incarnate
\* of next_version_to_execute finds cell i ReadyToExecute for every
\* i < chunk_size and fails only for i >= chunk_size; and every
\* ExecutionTask(i) issued after the first is returned by
\* finish_validation(i, true).
C28_OneExecutionTaskFromNextTask ==
    /\ [](InLoop =>
            /\ \A i \in DOMAIN tx_statuses : next_task_executions[i] <= 1
            /\ \A w \in Workers :
                  caller[w] = "next_version_to_execute" =>
                     /\ pc[w] = "try_incarnate:167" /\ tx_index[w] < chunk_size
                           => tx_statuses[tx_index[w]] = "ReadyToExecute"
                     /\ pc[w] = "try_incarnate:174" => tx_index[w] >= chunk_size)
    /\ [][InLoop =>
            \A w \in Workers :
               IssuesExecutionTask(w) /\ next_task_executions[tx_index[w]] >= 1
                  => caller[w] = "finish_validation" /\ aborted[w]]_vars

C28_Witness ==
    /\ mode = "contract"
    /\ chunk_size = 2
    /\ \A i \in DOMAIN tx_statuses : next_task_executions[i] = 1
    /\ \E w \in Workers :
          /\ pc[w] = "executing"
          /\ tx_index[w] = 1
          /\ 1 \in executed_once
    /\ \E w \in Workers :
          /\ pc[w] = "try_incarnate:174"
          /\ caller[w] = "next_version_to_execute"

----------------------------------------------------------------------------
\* The workers of the run.
ActiveWorkers == {w \in Workers : pc[w] # "off"}

\* A reservation called on its own that reads its index at or past chunk_size.
ReservationPastTheEnd ==
    \/ mode = "next_version_to_validate" /\ pre.validation_index >= pre.chunk_size
    \/ mode = "next_version_to_execute" /\ pre.execution_index >= pre.chunk_size

\* C29: with N workers in the loop, execution_index <= chunk_size + N - 1 and
\* validation_index <= chunk_size + N - 1 in every reachable state; and a
\* reservation that reads its index >= chunk_size returns None with both
\* indices, n_active_tasks, decrease_counter and the cells as they were.
C29_BoundedOvershoot ==
    /\ InLoop =>
          /\ execution_index <= chunk_size + Cardinality(ActiveWorkers) - 1
          /\ validation_index <= chunk_size + Cardinality(ActiveWorkers) - 1
    /\ ReservationPastTheEnd =>
          /\ pc[1] # "panicked"
          /\ execution_index = pre.execution_index
          /\ validation_index = pre.validation_index
          /\ n_active_tasks = pre.n_active_tasks
          /\ decrease_counter = pre.decrease_counter
          /\ tx_statuses = pre.tx_statuses
          /\ pc[1] = "returned" => result = "None"

C29_Witness ==
    /\ InLoop
    /\ chunk_size = 2
    /\ execution_index = chunk_size + Cardinality(ActiveWorkers) - 1
    /\ validation_index = chunk_size + Cardinality(ActiveWorkers) - 1

----------------------------------------------------------------------------
\* Every index has been issued as an ExecutionTask by next_task and executed,
\* both indices are past the end, every cell is Executed and no charge is left.
Quiescent ==
    /\ \A i \in DOMAIN tx_statuses :
          next_task_executions[i] >= 1 /\ i \in executed_once
    /\ execution_index >= chunk_size
    /\ validation_index >= chunk_size
    /\ AllExecuted
    /\ n_active_tasks = Cardinality({w \in Workers : InReservation(w)})

\* No validation reservation stands between its fetch_add and its reading of
\* the cell.
NoCellToInspect ==
    \A w \in Workers : pc[w] # "next_version_to_validate:187"

\* C27: in every fair run of the worker loop from Scheduler::new in which the
\* validators abort finitely many times, every index is issued as an
\* ExecutionTask and executed, and from some state on execution_index >=
\* chunk_size, validation_index >= chunk_size, every cell is Executed and
\* n_active_tasks counts only the reservations in progress, of which there
\* are eventually none; and no step leaves such a state once no validation
\* reservation has a cell left to inspect.
C27_ProgressToQuiescence ==
    /\ mode = "locks" =>
          /\ <>[]Quiescent
          /\ <>[](n_active_tasks = 0)
    /\ [][mode = "locks" /\ Quiescent /\ NoCellToInspect
            => Quiescent' /\ NoCellToInspect']_vars

C27_Witness ==
    /\ mode = "locks"
    /\ chunk_size = 2
    /\ n_aborts = 2
    /\ Quiescent
    /\ n_active_tasks = 0
    /\ ~done_marker
====
